---- MODULE Spec2Model ----
(***************************************************************************)
(* Function multiversioning (crate `multiversion`): the target             *)
(* specification parser of src/target.rs and the dispatcher that           *)
(* src/dispatcher.rs generates for a call site.                            *)
(*                                                                         *)
(* Three specifications share the variables below:                        *)
(*   SpecParse  one target specification string is parsed, printed with    *)
(*              target_string and parsed again;                            *)
(*   SpecEq     two well-formed strings are parsed and compared with       *)
(*              Target's PartialEq;                                        *)
(*   Spec       a dispatcher is expanded from a table of specializations,  *)
(*              compiled for one architecture and called from threads.     *)
(*                                                                         *)
(* A Rust string is a sequence of one-character strings.                   *)
(***************************************************************************)
EXTENDS Integers, Sequences, FiniteSets, TLC

VARIABLES
    (* ---- parser (SpecParse, SpecEq) ---- *)
    shape,          \* how the input string s was put together
    s,              \* the LitStr handed to Target::parse
    target,         \* Result<Target> of parsing s
    canon,          \* the LitStr target_string() printed for target
    reparsed,       \* Result<Target> of parsing canon
    shape2,         \* SpecEq: how the second string was put together
    s2,             \* SpecEq: the second LitStr
    target2,        \* SpecEq: Result<Target> of parsing s2
    eq_result,      \* SpecEq: the answer of Target::eq(target, target2)
    pstep,          \* position in the parser scenario
    (* ---- dispatcher (Spec) ---- *)
    specializations,\* Dispatcher.specializations: the targets, in declaration order
    sig,            \* the shape of Dispatcher.sig, Dispatcher.associated, the crate feature
    build_arch,     \* the target_arch the expansion is compiled for (the running CPU's)
    detected,       \* the features the detector answers true for on the running CPU
    phase,          \* "macro" | "expanded" | "compile_error" | "running"
    fns,            \* the items feature_fns() emitted
    dispatcher,     \* the body dispatcher_fn() emitted: "none" | "atomic" | "branch"
    mo,             \* modification order of the static __DISPATCHED_FN
    view,           \* per thread: the latest entry of mo it has observed
    pc,             \* per thread: position inside a call of the dispatcher
    current_ptr,    \* per thread: __current_ptr, the value it loaded (in a call)
    current_fn,     \* per thread: __current_fn, the function __get_fn returned (in a call)
    invoked,        \* per thread: the implementations its calls invoked, in order
    via_resolver,   \* per thread: for each finished call, whether it ran __resolver_fn
    args,           \* per thread: the arguments of the call it is in
    invoked_args,   \* per thread: the arguments its invocations were handed, in order
    get_fn_calls,   \* how many times __get_fn (the function selector) ran
    calls           \* how many calls of the dispatcher were started

parse_vars == <<shape, s, target, canon, reparsed, shape2, s2, target2, eq_result, pstep>>

dispatch_vars == <<specializations, sig, build_arch, detected, phase, fns, dispatcher,
                   mo, view, pc, current_ptr, current_fn, invoked, via_resolver,
                   args, invoked_args, get_fn_calls, calls>>

vars == <<parse_vars, dispatch_vars>>

-----------------------------------------------------------------------------
(* Bounds of the model *)

\* SpecParse, SpecEq: the longest list of architecture names in an input
MaxArches == 2

\* SpecParse, SpecEq: the most '+' segments after the architecture part
MaxFeatures == 2

\* Spec: the most specializations in a dispatch table
MaxSpecs == 2

\* Spec: the number of threads calling the dispatcher
NumThreads == 2

\* Spec: the most calls of the dispatcher, over all threads
MaxCalls == 2

-----------------------------------------------------------------------------
(* Strings *)

\* The characters of the model in byte order (str's Ord compares bytes)
CharOrder == <<"+", ".", "0", "1", "2", "3", "4", "5", "6", "7", "8", "9",
               "[", "]", "_",
               "a", "b", "c", "d", "e", "f", "g", "h", "i", "j", "k", "l", "m",
               "n", "o", "p", "q", "r", "s", "t", "u", "v", "w", "x", "y", "z",
               "|">>

CharCode(ch) == CHOOSE i \in 1..Len(CharOrder) : CharOrder[i] = ch

\* a < b for two strings, as <str as Ord>::cmp orders them (lexicographic by byte)
StrLess(a, b) ==
    \E i \in 1..(Len(a) + 1) :
        /\ \A j \in 1..(i - 1) : j <= Len(b) /\ a[j] = b[j]
        /\ \/ i = Len(a) + 1 /\ i <= Len(b)
           \/ i <= Len(a) /\ i <= Len(b) /\ CharCode(a[i]) < CharCode(b[i])

\* str::split(sep): the pieces between the occurrences of sep; never empty
RECURSIVE SplitFrom(_, _, _, _, _)
SplitFrom(str, sep, i, piece, pieces) ==
    IF i > Len(str) THEN Append(pieces, piece)
    ELSE IF str[i] = sep THEN SplitFrom(str, sep, i + 1, <<>>, Append(pieces, piece))
    ELSE SplitFrom(str, sep, i + 1, Append(piece, str[i]), pieces)

Split(str, sep) == SplitFrom(str, sep, 1, <<>>, <<>>)

\* [String]::join(sep)
RECURSIVE Join(_, _)
Join(strs, sep) ==
    IF strs = <<>> THEN <<>>
    ELSE IF Len(strs) = 1 THEN strs[1]
    ELSE strs[1] \o sep \o Join(Tail(strs), sep)

\* str::replace(ch, ""): every occurrence of ch removed
RECURSIVE Remove(_, _)
Remove(str, ch) ==
    IF str = <<>> THEN <<>>
    ELSE IF Head(str) = ch THEN Remove(Tail(str), ch)
    ELSE <<Head(str)>> \o Remove(Tail(str), ch)

\* where x goes in an ascending sequence
RECURSIVE Insert(_, _)
Insert(x, sorted) ==
    IF sorted = <<>> THEN <<x>>
    ELSE IF StrLess(Head(sorted), x) THEN <<Head(sorted)>> \o Insert(x, Tail(sorted))
    ELSE <<x>> \o sorted

\* Vec<String>::sort_unstable(): ascending, equal strings adjacent
RECURSIVE SortUnstable(_)
SortUnstable(strs) ==
    IF strs = <<>> THEN <<>> ELSE Insert(Head(strs), SortUnstable(Tail(strs)))

\* Vec::dedup(): of every run of equal consecutive elements the first is kept
RECURSIVE Dedup(_)
Dedup(strs) ==
    IF Len(strs) <= 1 THEN strs
    ELSE IF strs[1] = strs[2] THEN Dedup(Tail(strs))
    ELSE <<strs[1]>> \o Dedup(Tail(strs))

-----------------------------------------------------------------------------
(* src/target.rs: Architecture *)

Architecture == {"X86", "X86_64", "Arm", "Aarch64", "Mips", "Mips64", "PowerPC", "PowerPC64"}

as_str(arch) ==
    CASE arch = "X86"       -> <<"x", "8", "6">>
      [] arch = "X86_64"    -> <<"x", "8", "6", "_", "6", "4">>
      [] arch = "Arm"       -> <<"a", "r", "m">>
      [] arch = "Aarch64"   -> <<"a", "a", "r", "c", "h", "6", "4">>
      [] arch = "Mips"      -> <<"m", "i", "p", "s">>
      [] arch = "Mips64"    -> <<"m", "i", "p", "s", "6", "4">>
      [] arch = "PowerPC"   -> <<"p", "o", "w", "e", "r", "p", "c">>
      [] arch = "PowerPC64" -> <<"p", "o", "w", "e", "r", "p", "c", "6", "4">>

Ok(v) == [ok |-> TRUE, val |-> v, err |-> ""]

Err(msg) == [ok |-> FALSE, val |-> <<>>, err |-> msg]

\* Architecture::new(name, span)
Architecture_new(name) ==
    CASE name = <<"x", "8", "6">>                               -> Ok("X86")
      [] name = <<"x", "8", "6", "_", "6", "4">>                -> Ok("X86_64")
      [] name = <<"a", "r", "m">>                               -> Ok("Arm")
      [] name = <<"a", "a", "r", "c", "h", "6", "4">>           -> Ok("Aarch64")
      [] name = <<"m", "i", "p", "s">>                          -> Ok("Mips")
      [] name = <<"m", "i", "p", "s", "6", "4">>                -> Ok("Mips64")
      [] name = <<"p", "o", "w", "e", "r", "p", "c">>           -> Ok("PowerPC")
      [] name = <<"p", "o", "w", "e", "r", "p", "c", "6", "4">> -> Ok("PowerPC64")
      [] OTHER                                                  -> Err("unknown architecture")

-----------------------------------------------------------------------------
(* src/target.rs: Target *)

\* struct Target { architectures, features, span }
Target(architectures, features, span) ==
    [architectures |-> architectures, features |-> features, span |-> span]

\* LitStr: a string literal and where it stands in the source
LitStr(value, span) == [value |-> value, span |-> span]

\* iter.map(Architecture::new).collect::<Result<Vec<_>>>(): the first error, or all values
CollectArchitectures(names) ==
    IF \E i \in 1..Len(names) : ~Architecture_new(names[i]).ok
    THEN Err("unknown architecture")
    ELSE Ok([i \in 1..Len(names) |-> Architecture_new(names[i]).val])

\* the architectures of parse(): a bracketed '|' list, or one name
ParseArchitectures(arch_specifier) ==
    IF Head(arch_specifier) = "[" /\ arch_specifier[Len(arch_specifier)] = "]"
    THEN CollectArchitectures(Split(SubSeq(arch_specifier, 2, Len(arch_specifier) - 1), "|"))
    ELSE CollectArchitectures(<<arch_specifier>>)

\* ParseFeatures without the sort_unstable() call
ParseFeaturesUnsorted(pieces) ==
    IF \E i \in 1..Len(pieces) : pieces[i] = <<>>
    THEN Err("feature string cannot be empty")
    ELSE Ok(Dedup(pieces))

\* the features of parse(): the pieces after the first, none empty, sorted, deduplicated
ParseFeatures(pieces) ==
    IF \E i \in 1..Len(pieces) : pieces[i] = <<>>
    THEN Err("feature string cannot be empty")
    ELSE Ok(Dedup(SortUnstable(pieces)))

\* Target::parse(s) skipping empty feature segments instead of rejecting them
ParseMissingFeatureCheck(lit) ==
    LET it == Split(lit.value, "+")
        arch_specifier == Head(it)
    IN  IF arch_specifier = <<>> THEN Err("expected architecture specifier")
        ELSE LET architectures == ParseArchitectures(arch_specifier)
                 pieces == SelectSeq(Tail(it), LAMBDA x : x # <<>>)
             IN  IF ~architectures.ok THEN architectures
                 ELSE Ok(Target(architectures.val, Dedup(SortUnstable(pieces)), lit.span))

\* Target::parse(s)
Parse(lit) ==
    LET it == Split(lit.value, "+")
        arch_specifier == Head(it)
    IN  IF arch_specifier = <<>> THEN Err("expected architecture specifier")
        ELSE LET architectures == ParseArchitectures(arch_specifier)
                 features == ParseFeatures(Tail(it))
             IN  IF ~architectures.ok THEN architectures
                 ELSE IF ~features.ok THEN features
                 ELSE Ok(Target(architectures.val, features.val, lit.span))

\* target_string() printing several architectures without the brackets
target_stringUnbracketed(t) ==
    LET arches == Join([i \in 1..Len(t.architectures) |-> as_str(t.architectures[i])], <<"|">>)
        string == IF t.features = <<>> THEN arches
                  ELSE arches \o <<"+">> \o Join(t.features, <<"+">>)
    IN  LitStr(string, t.span)

\* Target::target_string()
target_string(t) ==
    LET arches == IF Len(t.architectures) > 1
                  THEN <<"[">> \o Join([i \in 1..Len(t.architectures) |->
                                            as_str(t.architectures[i])], <<"|">>) \o <<"]">>
                  ELSE as_str(Head(t.architectures))
        string == IF t.features = <<>> THEN arches
                  ELSE arches \o <<"+">> \o Join(t.features, <<"+">>)
    IN  LitStr(string, t.span)

\* the PartialEq a #[derive] would give Target: the span compared too
Target_eqDerived(a, b) ==
    a.architectures = b.architectures /\ a.features = b.features /\ a.span = b.span

\* impl PartialEq for Target
Target_eq(a, b) == a.architectures = b.architectures /\ a.features = b.features

\* Target::arches_as_str()
arches_as_str(t) == [i \in 1..Len(t.architectures) |-> as_str(t.architectures[i])]

\* Target::features_string()
features_string(t) == Remove(Join(t.features, <<"_">>), ".")

\* Target::has_features_specified()
has_features_specified(t) == t.features # <<>>

-----------------------------------------------------------------------------
(* The strings handed to Target::parse *)

x86 == <<"x", "8", "6">>

x86_64 == <<"x", "8", "6", "_", "6", "4">>

arm == <<"a", "r", "m">>

avx == <<"a", "v", "x">>

xsave == <<"x", "s", "a", "v", "e">>

sse4_2 == <<"s", "s", "e", "4", ".", "2">>

Range(f) == {f[i] : i \in DOMAIN f}

\* every sequence over set of a length in lo..hi
SeqsOf(set, lo, hi) == UNION {[1..n -> set] : n \in lo..hi}

\* An input is put together from an architecture part (names joined by '|', with or
\* without the opening and the closing bracket) and '+'-introduced segments.
Render(sh) ==
    (IF sh.open THEN <<"[">> ELSE <<>>)
    \o Join(sh.names, <<"|">>)
    \o (IF sh.close THEN <<"]">> ELSE <<>>)
    \o Join([i \in 1..Len(sh.segs) |-> <<"+">> \o sh.segs[i]], <<>>)

\* SpecParse: well-formed and malformed inputs
NameChoices == {<<>>, x86, x86_64, arm, sse4_2}

SegChoices == {<<>>, avx, sse4_2, x86}

Shapes ==
    [open : BOOLEAN, close : BOOLEAN,
     names : SeqsOf(NameChoices, 1, MaxArches),
     segs : SeqsOf(SegChoices, 0, MaxFeatures)]

\* SpecEq: well-formed inputs only
EqNames == {x86_64, arm}

EqFeatures == {xsave, sse4_2}

EqShapes ==
    {sh \in [open : BOOLEAN, close : BOOLEAN,
             names : SeqsOf(EqNames, 1, MaxArches),
             segs : SeqsOf(EqFeatures, 0, MaxFeatures)] :
        /\ sh.open = sh.close
        /\ Len(sh.names) > 1 => sh.open}

NoShape == [open |-> FALSE, close |-> FALSE, names |-> <<>>, segs |-> <<>>]

NoLit == LitStr(<<>>, 0)

NoResult == Err("")

-----------------------------------------------------------------------------
(* The parser scenarios *)

\* the dispatcher takes no part in the parser scenarios
DispatchIdle ==
    /\ specializations = <<>>
    /\ sig = [runtime_dispatch |-> FALSE, generic |-> FALSE, asyncness |-> FALSE,
              impl_trait |-> FALSE, associated |-> FALSE]
    /\ build_arch = "X86"
    /\ detected = {}
    /\ phase = "idle"
    /\ fns = {}
    /\ dispatcher = "none"
    /\ mo = <<>>
    /\ view = <<>>
    /\ pc = <<>>
    /\ current_ptr = <<>>
    /\ current_fn = <<>>
    /\ invoked = <<>>
    /\ via_resolver = <<>>
    /\ args = <<>>
    /\ invoked_args = <<>>
    /\ get_fn_calls = 0
    /\ calls = 0

InitParse ==
    /\ shape \in Shapes
    /\ s = LitStr(Render(shape), 1)
    /\ target = NoResult
    /\ canon = NoLit
    /\ reparsed = NoResult
    /\ shape2 = NoShape
    /\ s2 = NoLit
    /\ target2 = NoResult
    /\ eq_result = FALSE
    /\ pstep = "start"
    /\ DispatchIdle

InitEq ==
    /\ shape \in EqShapes
    /\ s = LitStr(Render(shape), 1)
    /\ shape2 \in EqShapes
    /\ s2 = LitStr(Render(shape2), 2)
    /\ target = NoResult
    /\ target2 = NoResult
    /\ canon = NoLit
    /\ reparsed = NoResult
    /\ eq_result = FALSE
    /\ pstep = "start"
    /\ DispatchIdle

\* let target = Target::parse(&s)
DoParse ==
    /\ pstep = "start"
    /\ target' = Parse(s)
    /\ pstep' = "parsed"
    /\ UNCHANGED <<shape, s, canon, reparsed, shape2, s2, target2, eq_result>>
    /\ UNCHANGED dispatch_vars

\* let canon = target?.target_string()
DoTargetString ==
    /\ pstep = "parsed"
    /\ target.ok
    /\ canon' = target_string(target.val)
    /\ pstep' = "printed"
    /\ UNCHANGED <<shape, s, target, reparsed, shape2, s2, target2, eq_result>>
    /\ UNCHANGED dispatch_vars

\* let reparsed = Target::parse(&canon)
DoReparse ==
    /\ pstep = "printed"
    /\ reparsed' = Parse(canon)
    /\ pstep' = "reparsed"
    /\ UNCHANGED <<shape, s, target, canon, shape2, s2, target2, eq_result>>
    /\ UNCHANGED dispatch_vars

\* let target2 = Target::parse(&s2)
DoParse2 ==
    /\ pstep = "parsed"
    /\ target2' = Parse(s2)
    /\ pstep' = "parsed2"
    /\ UNCHANGED <<shape, s, target, canon, reparsed, shape2, s2, eq_result>>
    /\ UNCHANGED dispatch_vars

\* target? == target2?
DoEq ==
    /\ pstep = "parsed2"
    /\ target.ok /\ target2.ok
    /\ eq_result' = Target_eq(target.val, target2.val)
    /\ pstep' = "compared"
    /\ UNCHANGED <<shape, s, target, canon, reparsed, shape2, s2, target2>>
    /\ UNCHANGED dispatch_vars

NextParse == DoParse \/ DoTargetString \/ DoReparse

SpecParse == InitParse /\ [][NextParse]_vars

NextEq == DoParse \/ DoParse2 \/ DoEq

SpecEq == InitEq /\ [][NextEq]_vars

-----------------------------------------------------------------------------
(* src/target.rs: what a Target contributes to the expansion *)

\* target_arch() giving a cfg that holds on every architecture
target_archAlways(t) == [negated |-> TRUE, arches |-> {}]

\* Target::target_arch(): #[cfg(any(target_arch = a1, target_arch = a2, ...))]
target_arch(t) == [negated |-> FALSE, arches |-> {as_str(t.architectures[i]) : i \in 1..Len(t.architectures)}]

\* Target::target_feature(): one #[target_feature(enable = f)] per feature
target_feature(t) == t.features

\* what rustc makes of a #[cfg(any(...))] or #[cfg(not(any(...)))] when compiling for arch
CfgHolds(cfg, arch) == (as_str(arch) \in cfg.arches) # cfg.negated

\* the detector of the running CPU: is_*_feature_detected!(f) with runtime_dispatch,
\* cfg!(target_feature = f) without
FeatureDetector(f) == f \in detected

\* the blocks of features_detected() that #[cfg(target_arch = a)] keeps on arch
DetectedBlocks(t, arch) == {i \in 1..Len(t.architectures) : t.architectures[i] = arch}

\* features_detected() with || between the detector calls
features_detectedAny(t) ==
    IF t.features = <<>> THEN TRUE
    ELSE \E i \in 1..Len(t.features) : FeatureDetector(t.features[i])

\* Target::features_detected(): true without features, else the && of the detector
\* calls in the block kept for the architecture compiled for
features_detected(t) ==
    IF t.features = <<>> THEN TRUE
    ELSE \A i \in 1..Len(t.features) : FeatureDetector(t.features[i])

\* make_target_fn(): #[multiversion::target(lit)] parses lit again and puts
\* target_arch() and target_feature() on the function; without lit it adds nothing
make_target_fn(lit) ==
    LET parsed == Parse(lit)
    IN  IF ~parsed.ok THEN Err(parsed.err)
        ELSE Ok([cfg |-> target_arch(parsed.val), enable |-> target_feature(parsed.val)])

-----------------------------------------------------------------------------
(* src/dispatcher.rs *)

\* the ident of the multiversioned function
Ident == <<"f">>

\* the function a call can reach: a specialization's block, the default block, or
\* the resolver the atomic starts out with
SpecFn(i) == [kind |-> "specialization", idx |-> i]

DefaultFn == [kind |-> "default", idx |-> 0]

ResolverFn == [kind |-> "__resolver_fn", idx |-> 0]

\* feature_fn_name(ident, target)
feature_fn_name(ident, t) ==
    IF t.ok /\ has_features_specified(t.val)
    THEN ident \o <<"_">> \o features_string(t.val) \o <<"_", "v", "e", "r", "s", "i", "o", "n">>
    ELSE ident \o <<"_", "d", "e", "f", "a", "u", "l", "t", "_", "v", "e", "r", "s", "i", "o", "n">>

\* Specialization::make_fn(): the item of specialization i
make_fn(specs, i) ==
    LET attr == make_target_fn(target_string(specs[i]))
    IN  [ident |-> feature_fn_name(Ident, Ok(specs[i])),
         cfg |-> attr.val.cfg,
         enable |-> attr.val.enable,
         block |-> SpecFn(i)]

\* cfg_if_not_defaulted() leaving the default enabled on every architecture
cfg_if_not_defaultedNever(specs) == [negated |-> TRUE, arches |-> {}]

\* Dispatcher::cfg_if_not_defaulted(): #[cfg(not(any(target_arch = ...)))] over the
\* architectures of the specializations without features
cfg_if_not_defaulted(specs) ==
    [negated |-> TRUE,
     arches |-> UNION {Range(arches_as_str(specs[i])) :
                          i \in {j \in 1..Len(specs) : ~has_features_specified(specs[j])}}]

\* Dispatcher::feature_fns(): an item per specialization, then the default
feature_fns(specs) ==
    [i \in 1..Len(specs) |-> make_fn(specs, i)]
    \o <<[ident |-> feature_fn_name(Ident, Err("")),
          cfg |-> cfg_if_not_defaulted(specs),
          enable |-> <<>>,
          block |-> DefaultFn]>>

\* the condition of dispatcher_fn() without its test of self.associated
UsesAtomicIgnoringAssociated(sg) ==
    /\ sg.runtime_dispatch
    /\ ~sg.generic
    /\ ~sg.asyncness
    /\ ~sg.impl_trait

\* the condition under which dispatcher_fn() emits the atomic function pointer
UsesAtomic(sg) ==
    /\ sg.runtime_dispatch
    /\ ~sg.generic
    /\ ~sg.asyncness
    /\ ~sg.impl_trait
    /\ ~sg.associated

\* the items rustc keeps when compiling for arch
EnabledFns(items, arch) == {i \in 1..Len(items) : CfgHolds(items[i].cfg, arch)}

\* the function a path names: the block of the enabled item of that ident
ResolveName(items, arch, name) ==
    items[CHOOSE i \in EnabledFns(items, arch) : items[i].ident = name].block

\* rustc accepts the expansion for arch: no two enabled items share an ident, the
\* default's ident names an item, and in every kept `if features_detected` exactly one
\* block of features_detected() is kept (two leave a non-unit statement)
CompileOk(specs, items, arch) ==
    /\ \A i, j \in EnabledFns(items, arch) : items[i].ident = items[j].ident => i = j
    /\ \E i \in EnabledFns(items, arch) : items[i].ident = feature_fn_name(Ident, Err(""))
    /\ \A i \in 1..Len(specs) :
           has_features_specified(specs[i]) /\ CfgHolds(target_arch(specs[i]), arch)
               => Cardinality(DetectedBlocks(specs[i], arch)) = 1

\* the return_if_detected guard of specialization i: kept by its target_arch cfg and
\* taken when its features are detected
ReturnIfDetected(specs, i, arch) ==
    /\ has_features_specified(specs[i])
    /\ CfgHolds(target_arch(specs[i]), arch)
    /\ features_detected(specs[i])

\* __get_fn(): the function of the first guard taken, else the default fn
RECURSIVE get_fn_from(_, _, _, _)
get_fn_from(specs, items, arch, i) ==
    IF i > Len(specs) THEN ResolveName(items, arch, feature_fn_name(Ident, Err("")))
    ELSE IF ReturnIfDetected(specs, i, arch)
         THEN ResolveName(items, arch, feature_fn_name(Ident, Ok(specs[i])))
         ELSE get_fn_from(specs, items, arch, i + 1)

get_fn(specs, items, arch) == get_fn_from(specs, items, arch, 1)

\* the branch chain: the call of the first guard taken, else of the default fn
RECURSIVE branch_from(_, _, _, _)
branch_from(specs, items, arch, i) ==
    IF i > Len(specs) THEN ResolveName(items, arch, feature_fn_name(Ident, Err("")))
    ELSE IF ReturnIfDetected(specs, i, arch)
         THEN ResolveName(items, arch, feature_fn_name(Ident, Ok(specs[i])))
         ELSE branch_from(specs, items, arch, i + 1)

\* the branch chain without the guard of the first specialization
branchSkippingFirst(specs, items, arch) == branch_from(specs, items, arch, 2)

branch(specs, items, arch) == branch_from(specs, items, arch, 1)

-----------------------------------------------------------------------------
(* The dispatcher scenario *)

Threads == 1..NumThreads

\* the arguments a caller passes (argument_names): those of the k-th call of thread t
\* are a value no other call passes
CallArgs(t) == <<t, Len(invoked[t]) + 1>>

\* outside a call a thread holds no arguments
NoArgs == <<>>

\* the targets a table is made of, as Target::parse leaves them: one architecture
\* with no, one or two features, two architectures with no or one feature
TableArchLists == {<<"X86">>, <<"X86", "Arm">>}

TableFeatureLists == {<<>>, <<avx>>, <<avx, sse4_2>>}

TableTargets ==
    {Target(a, f, 0) : a \in TableArchLists, f \in TableFeatureLists}
        \ {Target(<<"X86", "Arm">>, <<avx, sse4_2>>, 0)}

BuildArches == {"X86", "Arm", "Mips"}

\* the answers of the detector: no feature, avx alone, avx and sse4.2
DetectorAnswers == {{}, {avx}, {avx, sse4_2}}

\* plain fn with and without runtime_dispatch, generic, async, impl Trait, associated
Plain == [runtime_dispatch |-> TRUE, generic |-> FALSE, asyncness |-> FALSE,
          impl_trait |-> FALSE, associated |-> FALSE]

SigShapes ==
    {Plain,
     [Plain EXCEPT !.runtime_dispatch = FALSE],
     [Plain EXCEPT !.generic = TRUE],
     [Plain EXCEPT !.asyncness = TRUE],
     [Plain EXCEPT !.impl_trait = TRUE],
     [Plain EXCEPT !.associated = TRUE]}

\* the parser takes no part in the dispatcher scenario
ParseIdle ==
    /\ shape = NoShape
    /\ s = NoLit
    /\ target = NoResult
    /\ canon = NoLit
    /\ reparsed = NoResult
    /\ shape2 = NoShape
    /\ s2 = NoLit
    /\ target2 = NoResult
    /\ eq_result = FALSE
    /\ pstep = "idle"

Init ==
    /\ specializations \in SeqsOf(TableTargets, 0, MaxSpecs)
    /\ sig \in SigShapes
    /\ build_arch \in BuildArches
    /\ detected \in DetectorAnswers
    /\ phase = "macro"
    /\ fns = <<>>
    /\ dispatcher = "none"
    /\ mo = <<>>
    /\ view = [t \in Threads |-> 0]
    /\ pc = [t \in Threads |-> "idle"]
    /\ current_ptr = [t \in Threads |-> ResolverFn]
    /\ current_fn = [t \in Threads |-> ResolverFn]
    /\ invoked = [t \in Threads |-> <<>>]
    /\ via_resolver = [t \in Threads |-> <<>>]
    /\ args = [t \in Threads |-> NoArgs]
    /\ invoked_args = [t \in Threads |-> <<>>]
    /\ get_fn_calls = 0
    /\ calls = 0
    /\ ParseIdle

\* impl ToTokens for Dispatcher: feature_fns() and dispatcher_fn()
Expand ==
    /\ phase = "macro"
    /\ fns' = feature_fns(specializations)
    /\ dispatcher' = IF UsesAtomic(sig) THEN "atomic" ELSE "branch"
    /\ phase' = "expanded"
    /\ UNCHANGED <<specializations, sig, build_arch, detected, mo, view, pc, current_ptr,
                   current_fn, invoked, via_resolver, args, invoked_args, get_fn_calls,
                   calls>>
    /\ UNCHANGED parse_vars

\* the null pointer, which no item of the expansion has as its address
NullFn == [kind |-> "null", idx |-> 0]

\* the program started with static __DISPATCHED_FN = AtomicPtr::new(null)
CompileNullInit ==
    /\ phase = "expanded"
    /\ IF CompileOk(specializations, fns, build_arch)
       THEN /\ phase' = "running"
            /\ mo' = IF dispatcher = "atomic" THEN <<NullFn>> ELSE <<>>
            /\ view' = [t \in Threads |-> IF dispatcher = "atomic" THEN 1 ELSE 0]
       ELSE /\ phase' = "compile_error"
            /\ UNCHANGED <<mo, view>>
    /\ UNCHANGED <<specializations, sig, build_arch, detected, fns, dispatcher, pc,
                   current_ptr, current_fn, invoked, via_resolver, args, invoked_args,
                   get_fn_calls, calls>>
    /\ UNCHANGED parse_vars

\* the expansion is compiled for build_arch and the program started:
\* static __DISPATCHED_FN = AtomicPtr::new(__resolver_fn)
Compile ==
    /\ phase = "expanded"
    /\ IF CompileOk(specializations, fns, build_arch)
       THEN /\ phase' = "running"
            /\ mo' = IF dispatcher = "atomic" THEN <<ResolverFn>> ELSE <<>>
            /\ view' = [t \in Threads |-> IF dispatcher = "atomic" THEN 1 ELSE 0]
       ELSE /\ phase' = "compile_error"
            /\ UNCHANGED <<mo, view>>
    /\ UNCHANGED <<specializations, sig, build_arch, detected, fns, dispatcher, pc,
                   current_ptr, current_fn, invoked, via_resolver, args, invoked_args,
                   get_fn_calls, calls>>
    /\ UNCHANGED parse_vars

\* a load that waits while any thread is between __get_fn() and the end of its call
LoadLocked(t) ==
    /\ phase = "running" /\ dispatcher = "atomic"
    /\ pc[t] = "idle"
    /\ calls < MaxCalls
    /\ \A u \in Threads : pc[u] \notin {"selected", "stored"}
    /\ \E i \in view[t]..Len(mo) :
           /\ current_ptr' = [current_ptr EXCEPT ![t] = mo[i]]
           /\ view' = [view EXCEPT ![t] = i]
    /\ pc' = [pc EXCEPT ![t] = "loaded"]
    /\ args' = [args EXCEPT ![t] = CallArgs(t)]
    /\ calls' = calls + 1
    /\ UNCHANGED <<specializations, sig, build_arch, detected, phase, fns, dispatcher, mo,
                   current_fn, invoked, via_resolver, invoked_args, get_fn_calls>>
    /\ UNCHANGED parse_vars

\* let __current_ptr = __DISPATCHED_FN.load(Ordering::Relaxed): a relaxed load returns
\* an entry of the modification order no older than the last one the thread observed
Load(t) ==
    /\ phase = "running" /\ dispatcher = "atomic"
    /\ pc[t] = "idle"
    /\ calls < MaxCalls
    /\ \E i \in view[t]..Len(mo) :
           /\ current_ptr' = [current_ptr EXCEPT ![t] = mo[i]]
           /\ view' = [view EXCEPT ![t] = i]
    /\ pc' = [pc EXCEPT ![t] = "loaded"]
    /\ args' = [args EXCEPT ![t] = CallArgs(t)]
    /\ calls' = calls + 1
    /\ UNCHANGED <<specializations, sig, build_arch, detected, phase, fns, dispatcher, mo,
                   current_fn, invoked, via_resolver, invoked_args, get_fn_calls>>
    /\ UNCHANGED parse_vars

\* the dispatcher calling through the loaded pointer twice
InvokeTwice(t) ==
    /\ pc[t] = "loaded"
    /\ current_ptr[t] # ResolverFn
    /\ invoked' = [invoked EXCEPT ![t] = Append(Append(@, current_ptr[t]), current_ptr[t])]
    /\ via_resolver' = [via_resolver EXCEPT ![t] = Append(Append(@, FALSE), FALSE)]
    /\ invoked_args' = [invoked_args EXCEPT ![t] = Append(Append(@, args[t]), args[t])]
    /\ args' = [args EXCEPT ![t] = NoArgs]
    /\ pc' = [pc EXCEPT ![t] = "idle"]
    /\ current_ptr' = [current_ptr EXCEPT ![t] = ResolverFn]
    /\ UNCHANGED <<specializations, sig, build_arch, detected, phase, fns, dispatcher, mo,
                   view, current_fn, get_fn_calls, calls>>
    /\ UNCHANGED parse_vars

\* __current_fn(args) through the loaded pointer, when it is not the resolver
Invoke(t) ==
    /\ pc[t] = "loaded"
    /\ current_ptr[t] # ResolverFn
    /\ invoked' = [invoked EXCEPT ![t] = Append(@, current_ptr[t])]
    /\ via_resolver' = [via_resolver EXCEPT ![t] = Append(@, FALSE)]
    /\ invoked_args' = [invoked_args EXCEPT ![t] = Append(@, args[t])]
    /\ args' = [args EXCEPT ![t] = NoArgs]
    /\ pc' = [pc EXCEPT ![t] = "idle"]
    /\ current_ptr' = [current_ptr EXCEPT ![t] = ResolverFn]
    /\ UNCHANGED <<specializations, sig, build_arch, detected, phase, fns, dispatcher, mo,
                   view, current_fn, get_fn_calls, calls>>
    /\ UNCHANGED parse_vars

\* __get_fn() answering the default fn to every thread but the first
ResolverGetFnUnstable(t) ==
    /\ pc[t] = "loaded"
    /\ current_ptr[t] = ResolverFn
    /\ current_fn' = [current_fn EXCEPT ![t] =
                          IF t = 1 THEN get_fn(specializations, fns, build_arch)
                          ELSE DefaultFn]
    /\ get_fn_calls' = get_fn_calls + 1
    /\ pc' = [pc EXCEPT ![t] = "selected"]
    /\ UNCHANGED <<specializations, sig, build_arch, detected, phase, fns, dispatcher, mo,
                   view, current_ptr, invoked, via_resolver, args, invoked_args, calls>>
    /\ UNCHANGED parse_vars

\* the loaded pointer is the resolver: let __current_fn = __get_fn()
ResolverGetFn(t) ==
    /\ pc[t] = "loaded"
    /\ current_ptr[t] = ResolverFn
    /\ current_fn' = [current_fn EXCEPT ![t] = get_fn(specializations, fns, build_arch)]
    /\ get_fn_calls' = get_fn_calls + 1
    /\ pc' = [pc EXCEPT ![t] = "selected"]
    /\ UNCHANGED <<specializations, sig, build_arch, detected, phase, fns, dispatcher, mo,
                   view, current_ptr, invoked, via_resolver, args, invoked_args, calls>>
    /\ UNCHANGED parse_vars

\* the resolver leaving __DISPATCHED_FN as it is
ResolverStoreMissing(t) ==
    /\ pc[t] = "selected"
    /\ pc' = [pc EXCEPT ![t] = "stored"]
    /\ UNCHANGED <<specializations, sig, build_arch, detected, phase, fns, dispatcher, mo,
                   view, current_ptr, current_fn, invoked, via_resolver, args, invoked_args,
                   get_fn_calls, calls>>
    /\ UNCHANGED parse_vars

\* __DISPATCHED_FN.store(__current_fn as *mut (), Ordering::Relaxed)
ResolverStore(t) ==
    /\ pc[t] = "selected"
    /\ mo' = Append(mo, current_fn[t])
    /\ view' = [view EXCEPT ![t] = Len(mo) + 1]
    /\ pc' = [pc EXCEPT ![t] = "stored"]
    /\ UNCHANGED <<specializations, sig, build_arch, detected, phase, fns, dispatcher,
                   current_ptr, current_fn, invoked, via_resolver, args, invoked_args,
                   get_fn_calls, calls>>
    /\ UNCHANGED parse_vars

\* the resolver calling the default fn whatever __get_fn returned
ResolverInvokeDefault(t) ==
    /\ pc[t] = "stored"
    /\ invoked' = [invoked EXCEPT ![t] = Append(@, DefaultFn)]
    /\ via_resolver' = [via_resolver EXCEPT ![t] = Append(@, TRUE)]
    /\ invoked_args' = [invoked_args EXCEPT ![t] = Append(@, args[t])]
    /\ args' = [args EXCEPT ![t] = NoArgs]
    /\ pc' = [pc EXCEPT ![t] = "idle"]
    /\ current_ptr' = [current_ptr EXCEPT ![t] = ResolverFn]
    /\ current_fn' = [current_fn EXCEPT ![t] = ResolverFn]
    /\ UNCHANGED <<specializations, sig, build_arch, detected, phase, fns, dispatcher, mo,
                   view, get_fn_calls, calls>>
    /\ UNCHANGED parse_vars

\* the resolver's __current_fn(args)
ResolverInvoke(t) ==
    /\ pc[t] = "stored"
    /\ invoked' = [invoked EXCEPT ![t] = Append(@, current_fn[t])]
    /\ via_resolver' = [via_resolver EXCEPT ![t] = Append(@, TRUE)]
    /\ invoked_args' = [invoked_args EXCEPT ![t] = Append(@, args[t])]
    /\ args' = [args EXCEPT ![t] = NoArgs]
    /\ pc' = [pc EXCEPT ![t] = "idle"]
    /\ current_ptr' = [current_ptr EXCEPT ![t] = ResolverFn]
    /\ current_fn' = [current_fn EXCEPT ![t] = ResolverFn]
    /\ UNCHANGED <<specializations, sig, build_arch, detected, phase, fns, dispatcher, mo,
                   view, get_fn_calls, calls>>
    /\ UNCHANGED parse_vars

\* a call of the branch dispatcher: the guards in order, then the default fn
BranchCall(t) ==
    /\ phase = "running" /\ dispatcher = "branch"
    /\ calls < MaxCalls
    /\ invoked' = [invoked EXCEPT ![t] = Append(@, branch(specializations, fns, build_arch))]
    /\ via_resolver' = [via_resolver EXCEPT ![t] = Append(@, FALSE)]
    /\ invoked_args' = [invoked_args EXCEPT ![t] = Append(@, CallArgs(t))]
    /\ calls' = calls + 1
    /\ UNCHANGED <<specializations, sig, build_arch, detected, phase, fns, dispatcher, mo,
                   view, pc, current_ptr, current_fn, args, get_fn_calls>>
    /\ UNCHANGED parse_vars

Next ==
    \/ Expand
    \/ Compile
    \/ \E t \in Threads : Load(t)
    \/ \E t \in Threads : Invoke(t)
    \/ \E t \in Threads : ResolverGetFn(t)
    \/ \E t \in Threads : ResolverStore(t)
    \/ \E t \in Threads : ResolverInvoke(t)
    \/ \E t \in Threads : BranchCall(t)

Spec == Init /\ [][Next]_vars

-----------------------------------------------------------------------------
(* Properties of the parser *)

StrictlyAscending(strs) == \A i \in 1..(Len(strs) - 1) : StrLess(strs[i], strs[i + 1])

ArchNames == {as_str(a) : a \in Architecture}

\* C6: for every string that parses, parsing the string target_string() prints for
\* the parsed target succeeds and gives a target equal to the first one.
C6_RoundTrip ==
    /\ pstep = "printed" => target.ok
    /\ pstep = "reparsed" => reparsed.ok /\ Target_eq(reparsed.val, target.val)

\* a bracketed single architecture with two features given in descending order
C6_Witness ==
    /\ pstep = "reparsed"
    /\ shape.open /\ shape.close /\ Len(shape.names) = 1
    /\ Len(shape.segs) = 2 /\ StrLess(shape.segs[2], shape.segs[1])
    /\ reparsed.ok /\ Target_eq(reparsed.val, target.val)

\* the malformed inputs C7 lists, read off the way the input was put together
ArchPartEmpty(sh) == ~sh.open /\ ~sh.close /\ sh.names = <<<<>>>>

Unterminated(sh) == sh.open /\ ~sh.close

EmptyElement(sh) == sh.open /\ sh.close /\ \E i \in 1..Len(sh.names) : sh.names[i] = <<>>

UnknownName(sh) == \E i \in 1..Len(sh.names) : sh.names[i] \notin ArchNames

EmptyFeatureSegment(sh) == \E i \in 1..Len(sh.segs) : sh.segs[i] = <<>>

Malformed(sh) ==
    \/ ArchPartEmpty(sh)
    \/ Unterminated(sh)
    \/ EmptyElement(sh)
    \/ UnknownName(sh)
    \/ EmptyFeatureSegment(sh)

\* "+x86", "x86+", "[x86+avx", "[x86|]+avx", "sse4.2"
RejectedExamples ==
    {<<"+">> \o x86,
     x86 \o <<"+">>,
     <<"[">> \o x86 \o <<"+">> \o avx,
     <<"[">> \o x86 \o <<"|", "]", "+">> \o avx,
     sse4_2}

\* C7: parsing returns an error and no target when the architecture part is empty, a
\* bracketed list is unterminated or has an empty element, a name is not one of the
\* eight architectures, or a '+' segment is empty; the five examples are rejected.
C7_MalformedRejected ==
    pstep # "start" =>
        /\ Malformed(shape) => ~target.ok /\ target.val = <<>>
        /\ s.value \in RejectedExamples => ~target.ok /\ target.val = <<>>

\* "[x86|]+avx" was parsed and rejected
C7_Witness ==
    /\ pstep = "parsed"
    /\ s.value = <<"[">> \o x86 \o <<"|", "]", "+">> \o avx
    /\ EmptyElement(shape)
    /\ ~target.ok

\* C8: after a successful parse the features are strictly ascending, and two strings
\* with the same architecture part whose features differ only in order or repetition
\* parse to equal targets.
C8_CanonicalFeatures ==
    /\ pstep # "start" /\ target.ok => StrictlyAscending(target.val.features)
    /\ pstep \in {"parsed2", "compared"} /\ target2.ok =>
           StrictlyAscending(target2.val.features)
    /\ pstep = "compared"
       /\ shape.open = shape2.open /\ shape.names = shape2.names
       /\ Range(shape.segs) = Range(shape2.segs)
       => eq_result

\* "x86_64+xsave+sse4.2" against "x86_64+sse4.2+xsave"
C8_Witness ==
    /\ pstep = "compared"
    /\ s.value = x86_64 \o <<"+">> \o xsave \o <<"+">> \o sse4_2
    /\ s2.value = x86_64 \o <<"+">> \o sse4_2 \o <<"+">> \o xsave
    /\ target.val.features = <<sse4_2, xsave>>
    /\ eq_result

\* C9 as stated: equal exactly when the architectures are equal as sets and the
\* canonical features are equal.
C9_AsStated ==
    pstep = "compared" =>
        (eq_result <=>
            /\ Range(target.val.architectures) = Range(target2.val.architectures)
            /\ Range(target.val.features) = Range(target2.val.features))

\* C9 (amended): two parsed targets compare equal exactly when their architecture
\* lists are equal element by element, in the listed order and with the listed
\* repetitions, and their canonical feature sets are equal; the span takes no part.
C9_EqualityByList ==
    pstep = "compared" =>
        (eq_result <=>
            /\ target.val.architectures = target2.val.architectures
            /\ Range(target.val.features) = Range(target2.val.features))

\* two targets of different spans, two architectures and a feature compare equal
C9_Witness ==
    /\ pstep = "compared"
    /\ eq_result
    /\ target.val.span # target2.val.span
    /\ Len(target.val.architectures) = 2
    /\ shape.segs # shape2.segs

-----------------------------------------------------------------------------
(* Properties of the dispatcher *)

\* every implementation some call invoked
AllInvoked == UNION {Range(invoked[t]) : t \in Threads}

\* every function a resolver holds between __get_fn() and its call
AllSelected == {current_fn[t] : t \in {u \in Threads : pc[u] \in {"selected", "stored"}}}

Built == phase \in {"running", "compile_error"}

ListsArch(t, arch) == arch \in Range(t.architectures)

AllDetected(t) == Range(t.features) \subseteq detected

\* C1: under both dispatchers, a specialization with features is selected or invoked
\* only when the architecture compiled for is one of its architectures and every one
\* of its features is detected.
C1_OnlySupportedInvoked ==
    \A f \in AllInvoked \cup AllSelected :
        f.kind = "specialization" /\ specializations[f.idx].features # <<>> =>
            /\ ListsArch(specializations[f.idx], build_arch)
            /\ AllDetected(specializations[f.idx])

\* the atomic dispatcher passed over a first specialization one of whose features is
\* not detected and invoked the second, whose features are
C1_Witness ==
    /\ dispatcher = "atomic"
    /\ Len(specializations) = 2
    /\ ListsArch(specializations[1], build_arch)
    /\ ~AllDetected(specializations[1])
    /\ specializations[2].features # <<>>
    /\ SpecFn(2) \in AllInvoked

\* what C2 says is selected: the first specialization in declaration order whose
\* architectures list the running one and whose features, if any, are detected
MatchesAsStated(i) ==
    /\ ListsArch(specializations[i], build_arch)
    /\ AllDetected(specializations[i])

ChoiceAsStated ==
    IF \E i \in 1..Len(specializations) : MatchesAsStated(i)
    THEN SpecFn(CHOOSE i \in 1..Len(specializations) :
                    MatchesAsStated(i) /\ \A j \in 1..(i - 1) : ~MatchesAsStated(j))
    ELSE DefaultFn

\* C2: every call invokes the first specialization in declaration order that matches
\* the running CPU, a specialization without features matching on its architectures
\* alone, and the default only when none matches.
C2_FirstInDeclarationOrder == \A f \in AllInvoked : f = ChoiceAsStated

\* the table of C3: A with features, then B without, both for the architecture
\* compiled for
TableC3 ==
    /\ Len(specializations) = 2
    /\ specializations[1].features # <<>>
    /\ specializations[2].features = <<>>
    /\ Cardinality(DetectedBlocks(specializations[1], build_arch)) = 1
    /\ ListsArch(specializations[2], build_arch)

\* C3: with [A requiring features, B requiring none] for the running architecture, the
\* expansion builds and every call invokes A when A's features are detected and B when
\* they are not, never the global default.
C3_ArchDefaultOverridesGlobal ==
    TableC3 /\ Built =>
        /\ phase = "running"
        /\ \A f \in AllInvoked :
               f = IF AllDetected(specializations[1]) THEN SpecFn(1) ELSE SpecFn(2)

\* A's feature is not detected and a call invoked B
C3_Witness ==
    /\ TableC3
    /\ ~AllDetected(specializations[1])
    /\ SpecFn(2) \in AllInvoked

NoArchListed == \A i \in 1..Len(specializations) : ~ListsArch(specializations[i], build_arch)

\* C4: when no specialization lists the running architecture, the expansion builds and
\* every call invokes the global default, whatever is detected.
C4_ForeignArchGetsDefault ==
    NoArchListed /\ Built =>
        /\ phase = "running"
        /\ \A f \in AllInvoked : f = DefaultFn

\* on an architecture no specialization lists, with the features of the first all
\* detected, every call the bound allows was made and invoked the default
C4_Witness ==
    /\ NoArchListed
    /\ Len(specializations) > 0
    /\ specializations[1].features # <<>>
    /\ AllDetected(specializations[1])
    /\ calls = MaxCalls
    /\ \A t \in Threads : pc[t] = "idle" /\ invoked[t] # <<>>
    /\ AllInvoked = {DefaultFn}

\* C5 as stated: the function selector runs at most once for a call site, also when
\* callers race the first call.
C5_SelectorRunsOnce == get_fn_calls <= 1

\* the calls of thread t that ran the resolver, finished or under way
ResolverRuns(t) ==
    Cardinality({k \in 1..Len(via_resolver[t]) : via_resolver[t][k]})
    + (IF pc[t] \in {"selected", "stored"} THEN 1 ELSE 0)

RECURSIVE SumResolverRuns(_)
SumResolverRuns(n) == IF n = 0 THEN 0 ELSE ResolverRuns(n) + SumResolverRuns(n - 1)

\* C5 (amended): every resolved address stored or loaded is the same one; the selector
\* runs only in calls that loaded the resolver's address, once in each; and once a
\* thread has observed a resolved address (loaded it, or stored it), none of its later
\* calls runs the selector.
C5_ResolvedAddressStable ==
    /\ \A i \in 2..Len(mo) : mo[i] = mo[2]
    /\ \A t \in Threads :
           pc[t] = "loaded" /\ current_ptr[t] # ResolverFn => current_ptr[t] = mo[2]
    /\ get_fn_calls = SumResolverRuns(NumThreads)
    /\ \A t \in Threads :
           /\ \A k \in 1..Len(via_resolver[t]) : via_resolver[t][k] => k = 1
           /\ pc[t] \in {"selected", "stored"} => via_resolver[t] = <<>>

\* a thread resolved in its first call and loaded the resolved address in its second
C5_Witness ==
    \E t \in Threads :
        /\ via_resolver[t] = <<TRUE, FALSE>>
        /\ invoked[t][1] = invoked[t][2]
        /\ get_fn_calls = 1

\* C10: with the architecture and the detector's answers fixed, every call on every
\* thread invokes the same implementation, and what is selected is always a
\* specialization of the table or the default.
C10_Deterministic ==
    /\ \A f, g \in AllInvoked : f = g
    /\ \A f \in AllInvoked \cup AllSelected :
           \/ f = DefaultFn
           \/ f.kind = "specialization" /\ f.idx \in 1..Len(specializations)

\* two threads invoked the same specialization, one through the resolver and one
\* through the address it loaded
C10_Witness ==
    \E t, u \in Threads :
        /\ t # u
        /\ via_resolver[t] = <<TRUE>>
        /\ via_resolver[u] = <<FALSE>>
        /\ invoked[t][1].kind = "specialization"
        /\ invoked[u] = invoked[t]

\* the calls thread t has started: those finished and the one it is in
Started(t) == Len(invoked[t]) + (IF pc[t] = "idle" THEN 0 ELSE 1)

RECURSIVE SumStarted(_)
SumStarted(n) == IF n = 0 THEN 0 ELSE Started(n) + SumStarted(n - 1)

\* the items of the expansion kept for the architecture compiled for that carry the
\* default name
DefaultItems ==
    {i \in EnabledFns(fns, build_arch) : fns[i].ident = feature_fn_name(Ident, Err(""))}

\* the specializations without features that list the architecture compiled for
ArchDefaults ==
    {j \in 1..Len(specializations) :
        ~has_features_specified(specializations[j]) /\ ListsArch(specializations[j], build_arch)}

\* specialization i has features, lists the architecture compiled for, and all its
\* features are detected
FeatureMatch(i) ==
    /\ specializations[i].features # <<>>
    /\ ListsArch(specializations[i], build_arch)
    /\ AllDetected(specializations[i])

\* the selection for the running CPU: the first specialization with features that
\* matches, else the specialization without features for the architecture, else the
\* global default
Selected ==
    IF \E i \in 1..Len(specializations) : FeatureMatch(i)
    THEN SpecFn(CHOOSE i \in 1..Len(specializations) :
                    FeatureMatch(i) /\ \A j \in 1..(i - 1) : ~FeatureMatch(j))
    ELSE IF ArchDefaults # {} THEN SpecFn(CHOOSE j \in ArchDefaults : TRUE)
    ELSE DefaultFn

\* C11: under every interleaving of the callers of an atomic dispatcher, every call
\* that was started has invoked, or is still to invoke, one implementation once: the
\* k-th invocation of a thread is handed the arguments of its k-th call and reaches the
\* implementation selected for the running CPU, whether the call ran the resolver or
\* called through a resolved address it loaded.
C11_EachCallInvokesSelectedOnce ==
    phase = "running" /\ dispatcher = "atomic" =>
        /\ calls = SumStarted(NumThreads)
        /\ \A t \in Threads :
               /\ Len(invoked_args[t]) = Len(invoked[t])
               /\ Len(via_resolver[t]) = Len(invoked[t])
               /\ pc[t] # "idle" => args[t] = <<t, Len(invoked[t]) + 1>>
               /\ \A k \in 1..Len(invoked[t]) :
                      /\ invoked_args[t][k] = <<t, k>>
                      /\ invoked[t][k] = Selected

\* two callers raced the first call: each loaded the resolver's address, each ran the
\* resolver and stored, and each invoked the specialization selected, with its own
\* arguments
C11_Witness ==
    \E t, u \in Threads :
        /\ t # u
        /\ Len(mo) = 3
        /\ via_resolver[t] = <<TRUE>>
        /\ via_resolver[u] = <<TRUE>>
        /\ invoked[t][1].kind = "specialization"
        /\ invoked_args[t] = <<(<<t, 1>>)>>
        /\ invoked_args[u] = <<(<<u, 1>>)>>

\* the value of __DISPATCHED_FN: the last entry of its modification order
SlotValue == mo[Len(mo)]

\* C12: the only change the value of __DISPATCHED_FN ever makes is from the
\* resolver's address to another address: once it holds a resolved address, no later
\* or racing store puts the resolver's address back or changes the address held.
C12_SlotOneWay ==
    [][Len(mo) >= 1 =>
           /\ Len(mo') >= 1
           /\ SlotValue' # SlotValue => SlotValue = ResolverFn /\ SlotValue' # ResolverFn]_vars

\* two resolvers stored one after the other: the second store left the address of
\* the specialization the first had put there
C12_Witness ==
    /\ Len(mo) = 3
    /\ mo[1] = ResolverFn
    /\ mo[2].kind = "specialization"
    /\ mo[3] = mo[2]

\* the values a thread holds as __current_ptr between its load and its call
AllLoaded == {current_ptr[t] : t \in {u \in Threads : pc[u] = "loaded"}}

OwnStep(t) == Invoke(t) \/ ResolverGetFn(t) \/ ResolverStore(t) \/ ResolverInvoke(t)

\* the order in which a call passes through its positions: the load, then the call
\* through the loaded address, or the resolution, the store and the resolver's call
CallOrder ==
    {<<"idle", "loaded">>, <<"loaded", "idle">>, <<"loaded", "selected">>,
     <<"selected", "stored">>, <<"stored", "idle">>}

\* C14: in the atomic dispatcher no step of a call waits for another thread: a thread
\* can always begin a call with its load, a thread inside a call can always take its
\* next step, wherever the other threads are and stay, and every step moves the call
\* forward through at most one load, one resolution, one store and one invocation,
\* never back.
C14_NonBlockingBoundedSteps ==
    [][\A t \in Threads :
           /\ phase = "running" /\ dispatcher = "atomic" /\ pc[t] = "idle" /\ calls < MaxCalls
                  => ENABLED Load(t)
           /\ pc[t] # "idle" => ENABLED OwnStep(t)
           /\ pc'[t] # pc[t] => <<pc[t], pc'[t]>> \in CallOrder]_vars

\* a thread made a whole call, resolver included, while another stays stopped between
\* its resolution and its store
C14_Witness ==
    \E t, u \in Threads :
        /\ pc[u] = "selected"
        /\ pc[t] = "idle"
        /\ via_resolver[t] = <<TRUE>>
        /\ get_fn_calls = 2
        /\ Len(mo) = 2

\* the signature is one a function pointer can stand for: not generic, not async, no
\* impl Trait, not an associated function
PointerShape ==
    ~sig.generic /\ ~sig.asyncness /\ ~sig.impl_trait /\ ~sig.associated

\* C15 as stated: the shape of the signature alone decides; the atomic function
\* pointer is emitted exactly for a non-generic, non-async function without impl Trait
\* that is not associated, the branch chain exactly otherwise.
C15_ShapeAloneDecides ==
    dispatcher # "none" =>
        /\ dispatcher = "atomic" <=> PointerShape
        /\ dispatcher = "branch" <=> ~PointerShape

\* C15 (amended): the atomic function pointer is emitted exactly when the crate is
\* built with its runtime_dispatch feature and the function is non-generic, not async,
\* without impl Trait and not associated; the branch chain exactly when
\* runtime_dispatch is off or one of these fails. The table, the architecture and the
\* detector take no part.
C15_ShapeAndCrateFeatureDecide ==
    dispatcher # "none" =>
        /\ dispatcher = "atomic" <=> sig.runtime_dispatch /\ PointerShape
        /\ dispatcher = "branch" <=> ~sig.runtime_dispatch \/ ~PointerShape

\* a plain function expanded without runtime_dispatch was given the branch chain and
\* called through it
C15_Witness ==
    /\ PointerShape
    /\ ~sig.runtime_dispatch
    /\ dispatcher = "branch"
    /\ phase = "running"
    /\ calls > 0

\* C16: for every table, architecture and answers of the detector the expansion
\* builds for, the branch chain calls the function __get_fn returns, the selection
\* for the running CPU (the table, the architecture and the answers stay as they are
\* when the program starts), and every call of either dispatcher invokes it.
C16_StrategiesSelectAlike ==
    phase = "running" =>
        /\ calls = 0 =>
               /\ branch(specializations, fns, build_arch) = Selected
               /\ get_fn(specializations, fns, build_arch) = Selected
        /\ \A f \in AllInvoked : f = Selected

\* every call of a branch dispatcher fell through the guard of the first
\* specialization, whose features are not all detected, and took the second
C16_Witness ==
    /\ dispatcher = "branch"
    /\ calls = MaxCalls
    /\ Len(specializations) = 2
    /\ specializations[1].features # <<>>
    /\ ListsArch(specializations[1], build_arch)
    /\ ~AllDetected(specializations[1])
    /\ AllInvoked = {SpecFn(2)}
    /\ get_fn(specializations, fns, build_arch) = SpecFn(2)
    /\ branch(specializations, fns, build_arch) = SpecFn(2)

\* C17: for every table and every architecture, exactly one item of the expansion is
\* enabled under the default name: the global default when no specialization without
\* features lists the architecture, else the one specialization without features that
\* lists it.
C17_ExactlyOneDefault ==
    phase # "macro" =>
        /\ Cardinality(DefaultItems) = 1
        /\ \A i \in DefaultItems :
               fns[i].block \in (IF ArchDefaults = {} THEN {DefaultFn}
                                 ELSE {SpecFn(j) : j \in ArchDefaults})

====
